---- MODULE Spec2Model ----
(***************************************************************************)
(* frasco-eu-vat: EUVATService and EUVATFeature (frasco_eu_vat.py).        *)
(*                                                                         *)
(* Numbers.  Python floats are modelled as scaled integers:                *)
(*   amounts of money          in units of 0.01      (7      = 0.07)       *)
(*   VAT percentages           in units of 1         (20     = 20.0)       *)
(*   ECB reference rates       in units of 0.01      (746    = 7.46)       *)
(*   exchange rates (results)  in units of 0.00001   (746000 = 7.46)       *)
(*   unrounded gross amounts   in units of 0.0001                          *)
(* An optional number is <<>> (Python None) or <<n>>.  An optional string  *)
(* is NONE or the string.  A dict is a function on the set of its keys.    *)
(***************************************************************************)
EXTENDS Integers, Sequences, FiniteSets, TLC

VARIABLES
    today,                  \* datetime.date.today(), as a day number
    exchange_rates_cache,   \* _exchange_rates_cache: day -> snapshot
    vat_rates_cache,        \* _vat_rates_cache: country code -> {label -> rate}
    db,                     \* committed records of the configured model
    fr                      \* per thread: the frame of the call in progress

vars == <<today, exchange_rates_cache, vat_rates_cache, db, fr>>

\* ---------------------------------------------------------------- bounds
MaxDay == 1

Threads == {1, 2}
SeqThreads == {1}
Records == {1, 2}

NONE == "None"

\* ------------------------------------------------------- program constants
\* The Country Table, restricted to one euro country and one non-euro country.
EU_COUNTRIES == ("FR" :> "EUR") @@ ("DK" :> "DKK")

\* The order in which `for country_code in EU_COUNTRIES` visits the table.
CountryOrder == <<"FR", "DK">>

\* EUVATFeature.defaults, with own_country configured.
options == [own_country |-> "FR", vat_rate |-> "standard",
            invoice_customer_mention_message |-> "VAT Number: {number}"]

\* ------------------------------------------------------------ input sets
Codes == {"FR", "DK", "fr", "US", ""}
RateTypes == {NONE, "Reduced"}
VatNumbers == {NONE, "FR", "FR123"}
Amounts == {<<>>, <<0>>, <<7>>}
Currencies == {"EUR", "USD", "XXX"}
\* sender.tax_amount: None, a float, or a Decimal (Decimal * float raises TypeError).
TaxAmounts == {[kind |-> "none", v |-> 0], [kind |-> "float", v |-> 0],
               [kind |-> "float", v |-> 500], [kind |-> "decimal", v |-> 500]}
CustomerVatNumbers == {NONE, "FR123"}

\* What the TIC service can answer (ratesResponse.rate): a list of rates.
TICResponses == { <<[type |-> "REDUCED", value |-> 5], [type |-> "STANDARD", value |-> 20]>>,
                  <<[type |-> "STANDARD", value |-> 25]>> }

\* What the ECB feed can hold: a list of Cube elements.
ECBFeeds == { <<[currency |-> "USD", rate |-> 110], [currency |-> "DKK", rate |-> 746]>>,
              <<[currency |-> "USD", rate |-> 125], [currency |-> "DKK", rate |-> 745]>> }

\* ------------------------------------------------------- string functions
\* str.upper() on the strings of the model.
Upper(s) == CASE s = "fr" -> "FR"
              [] s = "dk" -> "DK"
              [] s = "us" -> "US"
              [] OTHER -> s

\* str.lower() on the strings of the model.
Lower(s) == CASE s = "STANDARD" -> "standard"
              [] s = "REDUCED" -> "reduced"
              [] s = "Reduced" -> "reduced"
              [] OTHER -> s

\* len() of the VAT number strings of the model.
StrLen(s) == CASE s = "" -> 0
               [] s = "FR" -> 2
               [] s = "FR123" -> 5
               [] OTHER -> 3

\* Python truth of an optional string: None and "" are false.
Truthy(s) == s # NONE /\ s # ""

\* Python truth of an optional number: None and 0 are false.
TruthyNum(n) == n # <<>> /\ n[1] # 0

\* dict.get(key): <<>> when the key is missing.
DictGet(d, key) == IF key \in DOMAIN d THEN <<d[key]>> ELSE <<>>

\* d[key] = value
DictSet(d, key, value) == (key :> value) @@ d

\* round(n / d) for n >= 0 and d > 0 (halves go up).
RoundDiv(n, d) == (2 * n + d) \div (2 * d)

\* ------------------------------------------------------------ is_eu_country
is_eu_country(country_code) ==
    Truthy(country_code) /\ Upper(country_code) \in DOMAIN EU_COUNTRIES

\* ------------------------------------------------------------------ frames
NoInvoice == [country |-> NONE, currency |-> NONE, tax_amount |-> [kind |-> "none", v |-> 0],
              customer_eu_vat_number |-> NONE, is_eu_country |-> <<>>,
              eu_vat_number |-> NONE, eu_exchange_rate |-> <<>>, eu_vat_amount |-> <<>>,
              customer_special_mention |-> <<>>]

IdleFrame == [op |-> "idle", pc |-> "idle",
              country_code |-> NONE, rate_type |-> NONE, vat_number |-> NONE,
              amount |-> <<>>, src_currency |-> NONE, obj |-> 0,
              k |-> 0, r |-> <<>>, i |-> 0, today |-> <<>>, rates |-> <<>>,
              is_vat_number_valid |-> FALSE, vat_rate |-> <<>>,
              sender |-> NoInvoice, work |-> <<>>, signals |-> <<>>,
              out |-> "none", err |-> NONE, value |-> <<>>,
              lookups |-> <<>>, remote |-> {}, wrote |-> FALSE, vies |-> "none"]

\* `return v`
Return(f, v) == [f EXCEPT !.pc = "done", !.out = "return", !.value = <<v>>]

\* on_invoice, after the try block: the customer mention.
InvoiceMention(f) ==
    LET s == f.sender
        tpl == options.invoice_customer_mention_message
        s2 == IF Truthy(s.eu_vat_number) /\ Truthy(tpl)
              THEN [s EXCEPT !.customer_special_mention =
                                 <<[template |-> tpl, number |-> s.eu_vat_number]>>]
              ELSE s
    IN Return([f EXCEPT !.sender = s2], NONE)

\* (variant: the handler logs and leaves the exchange rate as it is)
InvoiceExceptKeepingRate(f, e) ==
    InvoiceMention([f EXCEPT !.err = e])

\* on_invoice's `except Exception as e`: log, null the exchange rate, go on.
InvoiceExcept(f, e) ==
    InvoiceMention([f EXCEPT !.err = e, !.sender.eu_exchange_rate = <<>>])

\* `raise e` out of the current call: caught by on_invoice's try, and otherwise
\* the operation ends with the error (update_model_vat_rates leaves its
\* transaction without committing).
Raise(f, e) ==
    IF f.op = "on_invoice"
    THEN InvoiceExcept(f, e)
    ELSE [f EXCEPT !.pc = "done", !.out = "error", !.err = e]

\* --------------------------------------------------- fetch_exchange_rates
\* Lines 62-64: {'EUR': 1.0} and then one entry per Cube, in feed order.
RECURSIVE ParseFeed(_, _)
ParseFeed(feed, n) ==
    IF n = 0 THEN ("EUR" :> 100)
    ELSE DictSet(ParseFeed(feed, n - 1), feed[n].currency, feed[n].rate)

\* ------------------------------------------------------ get_exchange_rate
\* Lines 116-122, on the snapshot `rates`: [ok, v], v the rate or the error.
ExchangeRate(dest_currency, src_currency, rates) ==
    IF src_currency = dest_currency THEN [ok |-> TRUE, v |-> 100000]
    ELSE IF src_currency = "EUR"
    THEN IF dest_currency \in DOMAIN rates
         THEN [ok |-> TRUE, v |-> rates[dest_currency] * 1000]
         ELSE [ok |-> FALSE, v |-> "KeyError"]
    ELSE IF src_currency \notin DOMAIN rates
    THEN [ok |-> FALSE, v |-> "ServiceError 400: Can only use a currency listed in the ECB rates"]
    ELSE IF dest_currency \in DOMAIN rates
    THEN [ok |-> TRUE, v |-> RoundDiv(rates[dest_currency] * 100000, rates[src_currency])]
    ELSE [ok |-> FALSE, v |-> "KeyError"]

\* The arguments of the get_exchange_rate call the frame is in.
GerCountry(f) == IF f.op = "on_invoice" THEN f.sender.country ELSE f.country_code
GerCurrency(f) == IF f.op = "on_invoice" THEN f.sender.currency ELSE f.src_currency

\* Lines 112-115: get_exchange_rate up to its call of fetch_exchange_rates.
GerEnter(f) ==
    LET g == [f EXCEPT !.lookups = Append(@, "get_exchange_rate")]
    IN IF ~is_eu_country(GerCountry(f)) THEN Raise(g, "ServiceError 404: Not an EU country")
       ELSE IF GerCountry(f) \notin DOMAIN EU_COUNTRIES THEN Raise(g, "KeyError")
       ELSE [g EXCEPT !.pc = "fx_enter"]

\* ------------------------------------------------------- should_charge_vat
\* (variant: the seller's own country is not looked at)
should_charge_vat_IgnoringOwnCountry(country_code, has_number) ==
    is_eu_country(country_code) /\ ~has_number

\* Lines 186-188; has_number is the truth value of eu_vat_number.
should_charge_vat(country_code, has_number) ==
    is_eu_country(country_code) /\ (options.own_country = country_code \/ ~has_number)

\* ------------------------------------------------------------------ check
\* Lines 144-146: the effective rate in percent, <<>> when vat_rate / 100 raises.
EffectiveRate(should_charge, vat_rate) ==
    IF should_charge THEN vat_rate ELSE <<0>>

\* Line 143: `if amount:`
AmountGiven(amount) == TruthyNum(amount)

\* Lines 133-151, once every lookup has answered.
CheckFinish(f, exchange_rate) ==
    LET charge == should_charge_vat(f.country_code,
                                    Truthy(f.vat_number) /\ f.is_vat_number_valid)
        o == [country |-> f.country_code,
              currency |-> EU_COUNTRIES[f.country_code],
              vat_rate |-> f.vat_rate,
              vat_number |-> f.vat_number,
              is_vat_number_valid |-> f.is_vat_number_valid,
              should_charge_vat |-> charge,
              exchange_rate |-> exchange_rate,
              src_currency |-> f.src_currency]
        rate == EffectiveRate(charge, f.vat_rate)
    IN IF ~AmountGiven(f.amount) THEN Return(f, o)
       ELSE IF rate = <<>> THEN Raise(f, "TypeError")
       ELSE LET a == f.amount[1]
                gross == a * 100 + a * rate[1]
            IN Return(f, [amount |-> a,
                          vat_amount |-> RoundDiv(a * rate[1], 100),
                          amount_with_vat |-> gross,
                          exchanged_amount_with_vat |->
                              RoundDiv(gross * exchange_rate, 10000000)] @@ o)

\* (variant: the VAT rate lookup is left out when VAT will not be charged)
CheckBuildSkippingRate(f) ==
    IF f.country_code \notin DOMAIN EU_COUNTRIES THEN Raise(f, "KeyError")
    ELSE IF ~should_charge_vat(f.country_code, Truthy(f.vat_number) /\ f.is_vat_number_valid)
    THEN GerEnter(f)
    ELSE [f EXCEPT !.pc = "gvr_enter", !.lookups = Append(@, "get_vat_rate")]

\* Lines 133-136: the dict display up to the call of get_vat_rate.
CheckBuild(f) ==
    IF f.country_code \notin DOMAIN EU_COUNTRIES THEN Raise(f, "KeyError")
    ELSE [f EXCEPT !.pc = "gvr_enter", !.lookups = Append(@, "get_vat_rate")]

\* ------------------------------------------------------------- on_invoice
\* Lines 215-217, once get_exchange_rate has returned, and then lines 221-223.
InvoiceRate(f, exchange_rate) ==
    LET g == [f EXCEPT !.sender.eu_exchange_rate = <<exchange_rate>>]
        t == f.sender.tax_amount
    IN IF t.kind = "none" \/ t.v = 0 THEN InvoiceMention(g)
       ELSE IF t.kind = "decimal" THEN InvoiceExcept(g, "TypeError")
       ELSE InvoiceMention([g EXCEPT !.sender.eu_vat_amount = <<t.v * exchange_rate>>])

\* ------------------------------------------------------------ continuations
\* get_exchange_rate has answered res = [ok, v]: what its caller does next.
AfterGer(f, res) ==
    IF ~res.ok THEN Raise(f, res.v)
    ELSE CASE f.op = "check" -> CheckFinish(f, res.v)
           [] f.op = "on_invoice" -> InvoiceRate(f, res.v)
           [] OTHER -> Return(f, res.v)

\* fetch_exchange_rates has returned `rates`.
AfterFetch(f, rates) ==
    LET g == [f EXCEPT !.rates = <<rates>>]
    IN IF f.op = "fetch_exchange_rates" THEN Return(g, rates)
       ELSE AfterGer(g, ExchangeRate(EU_COUNTRIES[GerCountry(f)], GerCurrency(f), rates))

\* validate_vat_number has returned `valid`.
AfterValidate(f, valid) ==
    IF f.op = "check" THEN CheckBuild([f EXCEPT !.is_vat_number_valid = valid])
    ELSE Return(f, valid)

\* Lines 98-99: validate_vat_number up to its remote call.
ValidateEnter(f) ==
    LET g == [f EXCEPT !.lookups = Append(@, "validate_vat_number")]
    IN IF StrLen(f.vat_number) < 3 THEN Raise(g, "ServiceError 400: VAT number too short")
       ELSE [g EXCEPT !.pc = "vies_call"]

\* --------------------------------------------------- update_model_vat_rates
RecordOrder == <<1, 2>>

\* (variant: the filter keeps the records whose rate is already the new one)
RateFilterInverted(rec, country_code, rate) ==
    rec.country = country_code /\ rec.rate = rate

\* Line 204: filter(eu_vat_country=country_code, eu_vat_rate__ne=rate).
RateFilter(rec, country_code, rate) ==
    rec.country = country_code /\ rec.rate # rate

\* (variant: the batch signal is sent inside the loop over the countries)
RatesUpdatedSignalInLoop(signals, last) ==
    Append(signals, <<"vat_rates_updated", 0>>)

\* Line 208: the batch signal, sent once the loop over the countries has ended.
RatesUpdatedSignal(signals, last) ==
    IF last THEN Append(signals, <<"vat_rates_updated", 0>>) ELSE signals

\* The committed rows after a save_model made inside `with transaction()`
\* (frasco_models): nothing is committed before the block ends.
DbAfterSave(d, work) == d

\* The committed rows when the `with transaction()` block ends normally.
DbAfterCommit(d, work) == work

\* Lines 203-208 for one country, once get_vat_rate has returned `rate`:
\* [f, db], the frame and the committed rows afterwards.
UpdateBody(f, rate, d) ==
    LET cc == f.country_code
        last == f.k >= Len(CountryOrder)
        hit(o) == RateFilter(f.work[o], cc, rate)
        objs == SelectSeq(RecordOrder, hit)
        work2 == [o \in Records |->
                     IF hit(o) THEN [f.work[o] EXCEPT !.rate = rate] ELSE f.work[o]]
        sig2 == f.signals \o [j \in 1..Len(objs) |-> <<"vat_model_rate_updated", objs[j]>>]
        g == [f EXCEPT !.work = work2, !.signals = RatesUpdatedSignal(sig2, last)]
    IN IF ~last
       THEN [f |-> [g EXCEPT !.k = f.k + 1, !.country_code = CountryOrder[f.k + 1],
                             !.pc = "gvr_enter"],
             db |-> DbAfterSave(d, work2)]
       ELSE [f |-> Return(g, NONE),
             db |-> DbAfterCommit(d, work2)]

\* get_vat_rate has returned v: what its caller does next, as [f, db].
AfterGvr(f, v, d) ==
    LET g == [f EXCEPT !.r = <<>>, !.i = 0]
    IN CASE f.op = "check" -> [f |-> GerEnter([g EXCEPT !.vat_rate = v]), db |-> d]
         [] f.op = "set_model_country" ->
               [f |-> Return(g, NONE),
                db |-> [d EXCEPT ![f.obj] = [country |-> f.country_code, rate |-> v]]]
         [] f.op = "update_model_vat_rates" -> UpdateBody(g, v, d)
         [] OTHER -> [f |-> Return(g, v), db |-> d]

\* ================================================================ actions
Idle(t) == fr[t].pc = "idle"

\* The process starts: empty caches, records without a VAT country.
Init ==
    /\ today = 0
    /\ exchange_rates_cache = <<>>
    /\ vat_rates_cache = <<>>
    /\ db = [o \in Records |-> [country |-> NONE, rate |-> <<>>]]
    /\ fr = [t \in Threads |-> IdleFrame]

\* The calendar date changes.
Tick ==
    /\ today < MaxDay
    /\ today' = today + 1
    /\ UNCHANGED <<exchange_rates_cache, vat_rates_cache, db, fr>>

\* The process ends and a new one starts (lines 48-49 run again): the caches
\* are empty, the committed records stay.
Restart ==
    /\ \A t \in Threads : Idle(t)
    /\ (vat_rates_cache # <<>> \/ exchange_rates_cache # <<>>)
    /\ vat_rates_cache' = <<>>
    /\ exchange_rates_cache' = <<>>
    /\ UNCHANGED <<today, db, fr>>

\* The caller has its answer; the thread is free for the next call.
Finish(t) ==
    /\ fr[t].pc = "done"
    /\ fr' = [fr EXCEPT ![t] = IdleFrame]
    /\ UNCHANGED <<today, exchange_rates_cache, vat_rates_cache, db>>

\* ---- get_vat_rate
BeginGetVatRate(t) ==
    /\ Idle(t)
    /\ \E cc \in Codes, rt \in RateTypes :
          fr' = [fr EXCEPT ![t] = [IdleFrame EXCEPT !.op = "get_vat_rate", !.pc = "gvr_enter",
                                                    !.country_code = cc, !.rate_type = rt]]
    /\ UNCHANGED <<today, exchange_rates_cache, vat_rates_cache, db>>

\* Lines 80-84.
GvrEnter(t) ==
    LET f == fr[t]
        g == [f EXCEPT !.rate_type = IF Truthy(f.rate_type) THEN f.rate_type
                                      ELSE options.vat_rate]
    IN /\ f.pc = "gvr_enter"
       /\ fr' = [fr EXCEPT ![t] =
                    IF ~is_eu_country(f.country_code)
                    THEN Raise(f, "ServiceError 404: Not an EU country")
                    ELSE IF f.country_code \notin DOMAIN vat_rates_cache
                    THEN [g EXCEPT !.pc = "gvr_call"]
                    ELSE [g EXCEPT !.pc = "gvr_ret"]]
       /\ UNCHANGED <<today, exchange_rates_cache, vat_rates_cache, db>>

\* Lines 85-89: the remote call answers, faults (WebFault, swallowed) or fails
\* in the transport (not caught).
GvrCall(t) ==
    LET f == fr[t]
        g == [f EXCEPT !.remote = @ \cup {<<"TIC", f.country_code>>}]
    IN /\ f.pc = "gvr_call"
       /\ \/ \E resp \in TICResponses :
                fr' = [fr EXCEPT ![t] = [g EXCEPT !.pc = "gvr_init", !.r = <<resp>>]]
          \/ fr' = [fr EXCEPT ![t] = [g EXCEPT !.pc = "gvr_init", !.r = <<>>]]
          \/ fr' = [fr EXCEPT ![t] = Raise(g, "TransportError")]
       /\ UNCHANGED <<today, exchange_rates_cache, vat_rates_cache, db>>

\* Line 90, and line 91's first read of r.
GvrInit(t) ==
    LET f == fr[t]
        g == [f EXCEPT !.wrote = TRUE]
    IN /\ f.pc = "gvr_init"
       /\ vat_rates_cache' = DictSet(vat_rates_cache, f.country_code, <<>>)
       /\ fr' = [fr EXCEPT ![t] =
                    IF f.r = <<>> THEN Raise(g, "UnboundLocalError")
                    ELSE IF Len(f.r[1]) = 0 THEN [g EXCEPT !.pc = "gvr_ret"]
                    ELSE [g EXCEPT !.pc = "gvr_loop", !.i = 1]]
       /\ UNCHANGED <<today, exchange_rates_cache, db>>

\* Lines 91-92: one iteration, writing into the entry the cache holds now.
GvrLoop(t) ==
    LET f == fr[t]
        rate == f.r[1][f.i]
    IN /\ f.pc = "gvr_loop"
       /\ vat_rates_cache' =
              DictSet(vat_rates_cache, f.country_code,
                      DictSet(vat_rates_cache[f.country_code], Lower(rate.type), rate.value))
       /\ fr' = [fr EXCEPT ![t] =
                    IF f.i < Len(f.r[1]) THEN [f EXCEPT !.i = f.i + 1]
                    ELSE [f EXCEPT !.pc = "gvr_ret"]]
       /\ UNCHANGED <<today, exchange_rates_cache, db>>

\* Line 93, and the caller's next lines.
GvrRet(t) ==
    LET f == fr[t]
        v == DictGet(vat_rates_cache[f.country_code], Lower(f.rate_type))
        a == AfterGvr(f, v, db)
    IN /\ f.pc = "gvr_ret"
       /\ fr' = [fr EXCEPT ![t] = a.f]
       /\ db' = a.db
       /\ UNCHANGED <<today, exchange_rates_cache, vat_rates_cache>>

\* ---- validate_vat_number
BeginValidateVatNumber(t) ==
    /\ Idle(t)
    /\ \E vn \in VatNumbers \ {NONE} :
          fr' = [fr EXCEPT ![t] =
                    ValidateEnter([IdleFrame EXCEPT !.op = "validate_vat_number",
                                                    !.vat_number = vn])]
    /\ UNCHANGED <<today, exchange_rates_cache, vat_rates_cache, db>>

\* Lines 100-105: the registry answers, faults (WebFault: False) or the
\* transport fails (not caught).
ViesCall(t) ==
    LET f == fr[t]
        g == [f EXCEPT !.remote = @ \cup {<<"VIES", "">>}]
    IN /\ f.pc = "vies_call"
       /\ \/ fr' = [fr EXCEPT ![t] = AfterValidate([g EXCEPT !.vies = "valid"], TRUE)]
          \/ fr' = [fr EXCEPT ![t] = AfterValidate([g EXCEPT !.vies = "invalid"], FALSE)]
          \/ fr' = [fr EXCEPT ![t] = AfterValidate([g EXCEPT !.vies = "fault"], FALSE)]
          \/ fr' = [fr EXCEPT ![t] = Raise(g, "TransportError")]
       /\ UNCHANGED <<today, exchange_rates_cache, vat_rates_cache, db>>

\* ---- fetch_exchange_rates
BeginFetchExchangeRates(t) ==
    /\ Idle(t)
    /\ fr' = [fr EXCEPT ![t] = [IdleFrame EXCEPT !.op = "fetch_exchange_rates",
                                                  !.pc = "fx_enter"]]
    /\ UNCHANGED <<today, exchange_rates_cache, vat_rates_cache, db>>

\* (variant: line 58's cache test is missing)
FxEnterWithoutCacheTest(t) ==
    /\ fr[t].pc = "fx_enter"
    /\ fr' = [fr EXCEPT ![t] = [fr[t] EXCEPT !.today = <<today>>, !.pc = "fx_get"]]
    /\ UNCHANGED <<today, exchange_rates_cache, vat_rates_cache, db>>

\* Lines 57-59.
FxEnter(t) ==
    LET f == [fr[t] EXCEPT !.today = <<today>>]
    IN /\ fr[t].pc = "fx_enter"
       /\ fr' = [fr EXCEPT ![t] =
                    IF today \in DOMAIN exchange_rates_cache
                    THEN AfterFetch(f, exchange_rates_cache[today])
                    ELSE [f EXCEPT !.pc = "fx_get"]]
       /\ UNCHANGED <<today, exchange_rates_cache, vat_rates_cache, db>>

\* The snapshot the cache holds after line 65 stores `rates` under `day`.
StoreSnapshot(cache, day, rates) == DictSet(cache, day, rates)

\* Lines 60-66: the request and the parse succeed and the snapshot is stored
\* under the date read at line 57, or one of them raises.
FxGet(t) ==
    LET f == fr[t]
        g == [f EXCEPT !.remote = @ \cup {<<"ECB", "">>}]
    IN /\ f.pc = "fx_get"
       /\ \/ \E feed \in ECBFeeds :
                LET rates == ParseFeed(feed, Len(feed))
                IN /\ exchange_rates_cache' = StoreSnapshot(exchange_rates_cache, f.today[1], rates)
                   /\ fr' = [fr EXCEPT ![t] = AfterFetch([g EXCEPT !.wrote = TRUE], rates)]
          \/ /\ fr' = [fr EXCEPT ![t] = Raise(g, "TransportError")]
             /\ UNCHANGED exchange_rates_cache
       /\ UNCHANGED <<today, vat_rates_cache, db>>

\* ---- get_exchange_rate
BeginGetExchangeRate(t) ==
    /\ Idle(t)
    /\ \E cc \in Codes, src \in Currencies :
          fr' = [fr EXCEPT ![t] = GerEnter([IdleFrame EXCEPT !.op = "get_exchange_rate",
                                                             !.country_code = cc,
                                                             !.src_currency = src])]
    /\ UNCHANGED <<today, exchange_rates_cache, vat_rates_cache, db>>

\* ---- check
\* Lines 130-132.
BeginCheck(t) ==
    /\ Idle(t)
    /\ \E cc \in Codes, vn \in VatNumbers, a \in Amounts, src \in Currencies :
          LET f == [IdleFrame EXCEPT !.op = "check", !.country_code = cc, !.vat_number = vn,
                                     !.amount = a, !.src_currency = src]
          IN fr' = [fr EXCEPT ![t] =
                       IF ~is_eu_country(cc) THEN Raise(f, "ServiceError 404: Not an EU country")
                       ELSE IF Truthy(vn) THEN ValidateEnter(f)
                       ELSE CheckBuild(f)]
    /\ UNCHANGED <<today, exchange_rates_cache, vat_rates_cache, db>>

\* ---- on_invoice
\* Lines 211-215 and 224-225.
BeginOnInvoice(t) ==
    /\ Idle(t)
    /\ \E cc \in Codes \cup {NONE}, cur \in Currencies, ta \in TaxAmounts,
          vn \in CustomerVatNumbers :
          LET s == [NoInvoice EXCEPT !.country = cc, !.currency = cur, !.tax_amount = ta,
                                     !.customer_eu_vat_number = vn]
              f == [IdleFrame EXCEPT !.op = "on_invoice"]
          IN fr' = [fr EXCEPT ![t] =
                       IF is_eu_country(cc)
                       THEN GerEnter([f EXCEPT !.sender = [s EXCEPT !.is_eu_country = <<TRUE>>,
                                                                    !.eu_vat_number = vn]])
                       ELSE Return([f EXCEPT !.sender = [s EXCEPT !.is_eu_country = <<FALSE>>]],
                                   NONE)]
    /\ UNCHANGED <<today, exchange_rates_cache, vat_rates_cache, db>>

\* ---- set_model_country (the caller saves the record it passed)
\* Lines 190-196.
BeginSetModelCountry(t) ==
    /\ Idle(t)
    /\ \E o \in Records, cc \in Codes \cup {NONE} :
          LET f == [IdleFrame EXCEPT !.op = "set_model_country", !.obj = o]
          IN IF is_eu_country(cc)
             THEN /\ fr' = [fr EXCEPT ![t] = [f EXCEPT !.country_code = Upper(cc),
                                                       !.pc = "gvr_enter"]]
                  /\ UNCHANGED db
             ELSE /\ fr' = [fr EXCEPT ![t] = Return(f, NONE)]
                  /\ db' = [db EXCEPT ![o] = [country |-> NONE, rate |-> <<>>]]
    /\ UNCHANGED <<today, exchange_rates_cache, vat_rates_cache>>

\* ---- update_model_vat_rates
\* Lines 200-203: the transaction opens on the committed rows.
BeginUpdateModelVatRates(t) ==
    /\ Idle(t)
    /\ fr' = [fr EXCEPT ![t] = [IdleFrame EXCEPT !.op = "update_model_vat_rates",
                                                  !.pc = "gvr_enter", !.k = 1,
                                                  !.country_code = CountryOrder[1],
                                                  !.work = db]]
    /\ UNCHANGED <<today, exchange_rates_cache, vat_rates_cache, db>>

\* ========================================================== specifications
\* The service, one request at a time.
Next ==
    \/ Tick
    \/ \E t \in SeqThreads :
          \/ BeginGetVatRate(t) \/ GvrEnter(t) \/ GvrCall(t) \/ GvrInit(t) \/ GvrLoop(t)
          \/ GvrRet(t)
          \/ BeginValidateVatNumber(t) \/ ViesCall(t)
          \/ BeginFetchExchangeRates(t) \/ FxEnter(t) \/ FxGet(t)
          \/ BeginGetExchangeRate(t)
          \/ BeginCheck(t)
          \/ BeginOnInvoice(t)
          \/ Finish(t)

Spec == Init /\ [][Next]_vars

\* The feature's record maintenance, one command at a time.
NextBatch ==
    \/ Restart
    \/ \E t \in SeqThreads :
       \/ BeginGetVatRate(t) \/ GvrEnter(t) \/ GvrCall(t) \/ GvrInit(t) \/ GvrLoop(t)
       \/ GvrRet(t)
       \/ BeginSetModelCountry(t)
       \/ BeginUpdateModelVatRates(t)
       \/ Finish(t)

SpecBatch == Init /\ [][NextBatch]_vars

\* Two threads, each making one call of get_vat_rate or fetch_exchange_rates.
NextConc ==
    \E t \in Threads :
       \/ BeginGetVatRate(t) \/ GvrEnter(t) \/ GvrCall(t) \/ GvrInit(t) \/ GvrLoop(t)
       \/ GvrRet(t)
       \/ BeginFetchExchangeRates(t) \/ FxEnter(t) \/ FxGet(t)

SpecConc == Init /\ [][NextConc]_vars

\* ================================================================= claims
Done(t) == fr[t].pc = "done"
NotEU == "ServiceError 404: Not an EU country"

\* C1: a country code whose upper-cased form is not in the Country Table ends
\* get_vat_rate, get_exchange_rate and check with the 'Not an EU country'
\* error before any remote call or cache write; every other code (lower-case
\* spellings included) never ends them in a crash of the country lookup.
C1_CountryLookupNeverCrashes ==
    \A t \in Threads :
        (Done(t) /\ fr[t].op \in {"get_vat_rate", "get_exchange_rate", "check"}) =>
            IF Upper(fr[t].country_code) \notin DOMAIN EU_COUNTRIES
            THEN fr[t].out = "error" /\ fr[t].err = NotEU
                 /\ fr[t].remote = {} /\ ~fr[t].wrote
            ELSE fr[t].err # "KeyError"

\* C2: in every result check returns, should_charge_vat is true exactly when
\* own_country equals the country or no VAT number was confirmed valid by the
\* registry; a registry fault counts as not valid.
C2_ShouldChargeVat ==
    \A t \in Threads :
        (Done(t) /\ fr[t].op = "check" /\ fr[t].out = "return") =>
            LET o == fr[t].value[1]
            IN /\ o.should_charge_vat <=>
                      (options.own_country = fr[t].country_code \/ fr[t].vies # "valid")
               /\ o.is_vat_number_valid <=> fr[t].vies = "valid"

C2_Witness ==
    \E t \in Threads :
        /\ Done(t) /\ fr[t].op = "check" /\ fr[t].out = "return"
        /\ fr[t].vies = "fault" /\ fr[t].country_code # options.own_country
        /\ fr[t].value[1].should_charge_vat

\* C3: every result of a check call that was given an amount (zero included)
\* holds vat_amount, amount_with_vat and exchanged_amount_with_vat, computed
\* with the rate vat_rate/100 when VAT is charged and 0 otherwise.
C3_AmountsComputed ==
    \A t \in Threads :
        (Done(t) /\ fr[t].op = "check" /\ fr[t].out = "return" /\ fr[t].amount # <<>>) =>
            LET o == fr[t].value[1]
                a == fr[t].amount[1]
            IN /\ {"vat_amount", "amount_with_vat", "exchanged_amount_with_vat"}
                      \subseteq DOMAIN o
               /\ IF o.should_charge_vat
                  THEN /\ o.vat_rate # <<>>
                       /\ o.vat_amount = RoundDiv(a * o.vat_rate[1], 100)
                  ELSE o.vat_amount = 0 /\ o.amount_with_vat = a * 100

\* C4: a stored snapshot is never replaced; a call that starts on a date whose
\* snapshot is stored makes no network request and gets that snapshot; a fetch
\* that fails stores nothing; a snapshot appears only by a successful network
\* fetch of the call that stores it.
C4_SnapshotOncePerDate ==
    [][ /\ \A d \in DOMAIN exchange_rates_cache :
              d \in DOMAIN exchange_rates_cache'
              /\ exchange_rates_cache'[d] = exchange_rates_cache[d]
        /\ \A t \in Threads :
              /\ (fr[t].pc = "fx_enter" /\ fr'[t] # fr[t]
                      /\ today \in DOMAIN exchange_rates_cache) =>
                    /\ fr'[t].pc # "fx_get"
                    /\ <<"ECB", "">> \notin fr'[t].remote
                    /\ fr'[t].rates = <<exchange_rates_cache[today]>>
              /\ (fr[t].pc = "fx_get" /\ fr'[t] # fr[t] /\ fr'[t].rates = <<>>) =>
                    exchange_rates_cache' = exchange_rates_cache
        /\ \A d \in DOMAIN exchange_rates_cache' \ DOMAIN exchange_rates_cache :
              \E t \in Threads :
                 /\ fr[t].pc = "fx_get" /\ fr[t].today = <<d>>
                 /\ <<"ECB", "">> \in fr'[t].remote
                 /\ fr'[t].rates = <<exchange_rates_cache'[d]>>
      ]_vars

C4_Witness ==
    \E t \in Threads :
        /\ Done(t) /\ fr[t].op \in {"get_exchange_rate", "check", "on_invoice"}
        /\ fr[t].rates # <<>>
        /\ <<"ECB", "">> \notin fr[t].remote
        /\ fr[t].today = <<1>>
        /\ DOMAIN exchange_rates_cache = {0, 1}
        /\ exchange_rates_cache[0] # exchange_rates_cache[1]

\* C5: a run of update_model_vat_rates asks the remote rate service for the
\* rate of every EU country, also of a country cached earlier in the process.
\* (Stated for a process in which every cached entry holds the configured rate
\* type, that is, in which no rate lookup has faulted.)
C5_EveryCountryAskedRemotely ==
    (\A cc \in DOMAIN vat_rates_cache : Lower(options.vat_rate) \in DOMAIN vat_rates_cache[cc]) =>
        \A t \in Threads :
            (Done(t) /\ fr[t].op = "update_model_vat_rates" /\ fr[t].out = "return") =>
                \A cc \in DOMAIN EU_COUNTRIES : <<"TIC", cc>> \in fr[t].remote

\* C5 as amended: a run takes each country's rate from get_vat_rate, which asks
\* the remote service only when the cache holds no entry for the country; after
\* a successful run every record whose country is an EU country has the rate
\* the cache holds for that country under the configured label.
C5_RatesFromCache ==
    \A t \in Threads :
        /\ (fr[t].op = "update_model_vat_rates" /\ fr[t].pc = "gvr_call") =>
               fr[t].country_code \notin DOMAIN vat_rates_cache
        /\ (Done(t) /\ fr[t].op = "update_model_vat_rates" /\ fr[t].out = "return") =>
               \A o \in Records :
                  db[o].country \in DOMAIN EU_COUNTRIES =>
                     /\ db[o].country \in DOMAIN vat_rates_cache
                     /\ db[o].rate = DictGet(vat_rates_cache[db[o].country],
                                               Lower(options.vat_rate))

C5_Witness ==
    \E t \in Threads :
        /\ Done(t) /\ fr[t].op = "update_model_vat_rates" /\ fr[t].out = "return"
        /\ <<"TIC", "FR">> \notin fr[t].remote
        /\ <<"vat_model_rate_updated", 1>> \in {fr[t].signals[j] : j \in DOMAIN fr[t].signals}
        /\ db[1].country = "FR" /\ db[1].rate # <<>>

\* The complete mapping line 90-92 builds from one remote response.
RECURSIVE RatesOf(_, _)
RatesOf(resp, n) ==
    IF n = 0 THEN <<>>
    ELSE DictSet(RatesOf(resp, n - 1), Lower(resp[n].type), resp[n].value)

\* C6: when no remote call faulted, every concurrent caller of get_vat_rate for
\* a country of the Country Table returns what a sequential call returns: the
\* rate of the requested type in the complete mapping of some remote response,
\* never the reading of a partially populated entry.
C6_ConcurrentCallersSeeCompleteEntry ==
    (\A u \in Threads : fr[u].err # "UnboundLocalError") =>
        \A t \in Threads :
            (Done(t) /\ fr[t].op = "get_vat_rate" /\ fr[t].out = "return"
                 /\ fr[t].country_code \in DOMAIN EU_COUNTRIES) =>
                \E resp \in TICResponses :
                    fr[t].value[1] = DictGet(RatesOf(resp, Len(resp)), Lower(fr[t].rate_type))

\* C7: on_invoice always completes; for an EU country the invoice is marked,
\* carries the customer's VAT number and, when the exchange-rate step failed,
\* a null exchange rate, and the mention is rendered whenever a VAT number is
\* present and a template is configured; for any other country only
\* is_eu_country is set, to false.
C7_InvoiceNeverBlocked ==
    \A t \in Threads :
        (Done(t) /\ fr[t].op = "on_invoice") =>
            LET s == fr[t].sender
                tpl == options.invoice_customer_mention_message
            IN /\ fr[t].out = "return"
               /\ IF is_eu_country(s.country)
                  THEN /\ s.is_eu_country = <<TRUE>>
                       /\ s.eu_vat_number = s.customer_eu_vat_number
                       /\ fr[t].err # NONE => s.eu_exchange_rate = <<>>
                       /\ fr[t].err = NONE => s.eu_exchange_rate # <<>>
                       /\ (Truthy(s.eu_vat_number) /\ Truthy(tpl)) =>
                              s.customer_special_mention =
                                  <<[template |-> tpl, number |-> s.eu_vat_number]>>
                  ELSE s = [NoInvoice EXCEPT !.country = s.country,
                                             !.currency = s.currency,
                                             !.tax_amount = s.tax_amount,
                                             !.customer_eu_vat_number = s.customer_eu_vat_number,
                                             !.is_eu_country = <<FALSE>>]

C7_Witness ==
    \E t \in Threads :
        /\ Done(t) /\ fr[t].op = "on_invoice" /\ fr[t].err = "TypeError"
        /\ fr[t].rates # <<>>
        /\ fr[t].sender.eu_exchange_rate = <<>>
        /\ fr[t].sender.customer_special_mention # <<>>

\* C8: while a run of update_model_vat_rates is in progress nothing is
\* committed; a run that fails commits nothing and emits no 'rates updated';
\* a run that succeeds commits its updates and emits 'rates updated' once, last.
C8_AllOrNothing ==
    [][ \A t \in Threads :
          (fr[t].op = "update_model_vat_rates" /\ fr[t].pc # "done") =>
             LET g == fr'[t]
                 sent == {j \in DOMAIN g.signals : g.signals[j][1] = "vat_rates_updated"}
             IN IF g.pc = "done" /\ g.out = "return"
                THEN db' = g.work /\ sent = {Len(g.signals)}
                ELSE db' = db /\ sent = {}
      ]_vars

C8_Witness ==
    \E t \in Threads :
        /\ Done(t) /\ fr[t].op = "update_model_vat_rates" /\ fr[t].out = "error"
        /\ fr[t].signals # <<>>
        /\ fr[t].work # db

\* The sub-lookups a check call with this VAT number makes when none fails.
ExpectedLookups(vat_number) ==
    (IF Truthy(vat_number) THEN <<"validate_vat_number">> ELSE <<>>)
        \o <<"get_vat_rate", "get_exchange_rate">>

\* C9: every check call for a country of the Country Table makes all its
\* sub-lookups, in the order validation (when a VAT number is given), VAT rate,
\* exchange rate, whatever its inputs and the outcome of a step.
C9_AllLookupsAlways ==
    \A t \in Threads :
        (Done(t) /\ fr[t].op = "check" /\ fr[t].country_code \in DOMAIN EU_COUNTRIES) =>
            fr[t].lookups = ExpectedLookups(fr[t].vat_number)

\* C9 as amended: a check call for an EU country that returns a result has made
\* all its sub-lookups in that order, whatever the validity of the VAT number
\* and whether or not VAT is charged; a call that ends in an error has made
\* them, in that order, up to the one that failed, and none after it.
C9_LookupsUntilError ==
    \A t \in Threads :
        (Done(t) /\ fr[t].op = "check" /\ is_eu_country(fr[t].country_code)) =>
            LET want == ExpectedLookups(fr[t].vat_number)
            IN IF fr[t].out = "return"
               THEN fr[t].lookups = want
               ELSE /\ Len(fr[t].lookups) <= Len(want)
                    /\ fr[t].lookups = SubSeq(want, 1, Len(fr[t].lookups))

C9_Witness ==
    \E t \in Threads :
        /\ Done(t) /\ fr[t].op = "check" /\ fr[t].out = "return"
        /\ fr[t].vies = "invalid"
        /\ fr[t].country_code # options.own_country
        /\ fr[t].value[1].should_charge_vat
        /\ fr[t].lookups = <<"validate_vat_number", "get_vat_rate", "get_exchange_rate">>

\* C10: a get_vat_rate call for a country of the Country Table that ends in an
\* error leaves no cache entry for that country.
C10_FailedLookupLeavesNoEntry ==
    \A t \in Threads :
        (Done(t) /\ fr[t].op = "get_vat_rate" /\ fr[t].out = "error"
             /\ fr[t].country_code \in DOMAIN EU_COUNTRIES) =>
            fr[t].country_code \notin DOMAIN vat_rates_cache

====
